---------------------------- MODULE Spec2Model ----------------------------
(***************************************************************************)
(* Tessa travel assistant: the worker/supervisor LangGraph agent           *)
(* (llm_graph_update.py), its Streamlit caller (new_conversational_app.py),*)
(* the schema-validated tools (tools.py) and the Amadeus gateway           *)
(* (amadeus_api_client.py).                                                *)
(***************************************************************************)
EXTENDS Integers, Sequences, FiniteSets, TLC

(* ------------------------------ bounds --------------------------------- *)
\* user turns per session
MaxTurns == 2
\* tool calls the worker may put in one AIMessage
MaxToolCalls == 2

Last(s) == s[Len(s)]

IsPrefix(s, t) == /\ Len(s) <= Len(t)
                  /\ \A i \in 1..Len(s) : s[i] = t[i]

(* ---------------------- JSON values of tool arguments ------------------ *)
\* every value has the same shape so that any two can be compared
Absent   == [t |-> "absent", s |-> "", n |-> 0, b |-> FALSE]
JNull    == [t |-> "null",   s |-> "", n |-> 0, b |-> FALSE]
JStr(x)  == [t |-> "str",    s |-> x,  n |-> 0, b |-> FALSE]
JNum(x)  == [t |-> "num",    s |-> "", n |-> x, b |-> FALSE]
JBool(x) == [t |-> "bool",   s |-> "", n |-> 0, b |-> x]

\* the strings of the model that Python's int()/float() parsing accepts
NumericStrings == {"2"}
ParseNum(str) == IF str = "2" THEN 2 ELSE 0

(* --------------------------- tools.py schemas -------------------------- *)
FlightFields == {"origin", "destination", "departure_date", "num_adults",
                 "num_children", "non_stop", "maximum_results"}
CityFields   == {"city_code"}
AreaFields   == {"place_name", "latitude", "longitude", "radius"}
Fields       == FlightFields \cup CityFields \cup AreaFields

ToolNames == {"get_current_date", "search_flights", "search_hotels_by_city",
              "search_hotels_by_area"}

\* the fields of each tool's args_schema
SchemaFields(tool) ==
    CASE tool = "search_flights"        -> FlightFields
      [] tool = "search_hotels_by_city" -> CityFields
      [] tool = "search_hotels_by_area" -> AreaFields
      [] OTHER                          -> {}

\* Field(...) marks a field required
RequiredFields(tool) ==
    CASE tool = "search_flights"        -> {"origin", "destination", "departure_date"}
      [] tool = "search_hotels_by_city" -> {"city_code"}
      [] OTHER                          -> {}

FieldType(field) ==
    CASE field \in {"origin", "destination", "departure_date", "city_code"} -> "str"
      [] field \in {"num_adults", "num_children", "maximum_results", "radius"} -> "int"
      [] field = "non_stop"                  -> "bool"
      [] field = "place_name"                -> "optstr"
      [] field \in {"latitude", "longitude"} -> "optfloat"

DefaultNumAdults      == 1
DefaultNumChildren    == 0
DefaultNonStop        == TRUE
DefaultMaximumResults == 10
DefaultRadius         == 2

FieldDefault(field) ==
    CASE field = "num_adults"      -> JNum(DefaultNumAdults)
      [] field = "num_children"    -> JNum(DefaultNumChildren)
      [] field = "non_stop"        -> JBool(DefaultNonStop)
      [] field = "maximum_results" -> JNum(DefaultMaximumResults)
      [] field = "radius"          -> JNum(DefaultRadius)
      [] OTHER                     -> JNull

\* pydantic's (lax) conversion of one supplied value to the field's type
Coercible(ty, v) ==
    CASE ty = "str"      -> v.t = "str"
      [] ty = "int"      -> \/ v.t \in {"num", "bool"}
                            \/ v.t = "str" /\ v.s \in NumericStrings
      [] ty = "bool"     -> \/ v.t = "bool"
                            \/ v.t = "num" /\ v.n \in {0, 1}
                            \/ v.t = "str" /\ v.s \in {"true", "false"}
      [] ty = "optstr"   -> v.t \in {"null", "str"}
      [] ty = "optfloat" -> \/ v.t \in {"null", "num"}
                            \/ v.t = "str" /\ v.s \in NumericStrings

Coerce(ty, v) ==
    CASE ty = "int" /\ v.t = "str"      -> JNum(ParseNum(v.s))
      [] ty = "int" /\ v.t = "bool"     -> JNum(IF v.b THEN 1 ELSE 0)
      [] ty = "bool" /\ v.t = "num"     -> JBool(v.n = 1)
      [] ty = "bool" /\ v.t = "str"     -> JBool(v.s = "true")
      [] ty = "optfloat" /\ v.t = "str" -> JNum(ParseNum(v.s))
      [] OTHER                          -> v

\* the fields a call's arguments get wrong: a required one missing, or a
\* supplied value that does not convert
OffendingFields(tool, args) ==
    {f \in SchemaFields(tool) :
        \/ f \in RequiredFields(tool) /\ args[f].t = "absent"
        \/ args[f].t # "absent" /\ ~Coercible(FieldType(f), args[f])}

\* validation that lets everything through
ValidateMutant(tool, args) == TRUE

\* args_schema validation of a tool call's arguments
Validate(tool, args) == OffendingFields(tool, args) = {}

\* the keyword arguments the implementation function is called with
FillDefaults(tool, args) ==
    [f \in SchemaFields(tool) |->
        IF args[f].t = "absent" THEN FieldDefault(f)
                                ELSE Coerce(FieldType(f), args[f])]


(* ------------------------ tool results (payloads) ---------------------- *)
\* a Python str, kept as the pieces an f-string joins
Str(parts)  == [kind |-> "str",  parts |-> parts]
\* the provider's response.data
List(data)  == [kind |-> "list", parts |-> data]
\* an exception leaving the callee
Raised(what) == [kind |-> "exception", parts |-> <<what>>]

Truthy(v) ==
    CASE v.t = "str"  -> v.s # ""
      [] v.t = "num"  -> v.n # 0
      [] v.t = "bool" -> v.b
      [] OTHER        -> FALSE

(* ----------------- outcomes of the external collaborators -------------- *)
\* the travel provider: data, an error response, or a transport failure
ProviderOutcomes ==
    {[out |-> "ok", data |-> <<"offer1", "offer2", "offer3">>, description |-> ""],
     [out |-> "response_error", data |-> <<>>, description |-> "[400]"],
     [out |-> "exception", data |-> <<>>, description |-> ""]}

\* the geocoding lookup: a location, no match, or a transport failure
GeoOutcomes ==
    {[out |-> "hit",   lat |-> 48, lon |-> 2],
     [out |-> "miss",  lat |-> 0,  lon |-> 0],
     [out |-> "raise", lat |-> 0,  lon |-> 0]}

NotInitialized == Str(<<"Amadeus client is not initialized. Check API credentials.">>)

\* the try/except around one SDK call: response.data, or an error string
GatewayResult(prov, onResponseError, onException) ==
    CASE prov.out = "ok"             -> List(prov.data)
      [] prov.out = "response_error" -> Str(<<onResponseError, prov.description>>)
      [] OTHER                       -> Str(<<onException>>)

(* ------------------------ amadeus_api_client.py ------------------------ *)
\* each method yields its return value and the SDK requests it sent
find_one_way_flights(client, origin, destination, departure_date, number_of_adults, number_of_children, nonstop, max_results, prov) ==
    IF ~client
    THEN [result |-> NotInitialized, sdk |-> <<>>]
    ELSE [result |-> GatewayResult(prov,
                        "An error occurred while searching for flights: ",
                        "An unexpected error occurred during the flight search."),
          sdk |-> << [endpoint |-> "shopping.flight_offers_search",
                      params |-> [originLocationCode |-> origin,
                                  destinationLocationCode |-> destination,
                                  departureDate |-> departure_date,
                                  adults |-> number_of_adults,
                                  children |-> number_of_children,
                                  nonStop |-> JStr(IF Truthy(nonstop) THEN "true" ELSE "false"),
                                  max |-> max_results]] >>]

find_hotels_in_city(client, city_code, prov) ==
    IF ~client
    THEN [result |-> NotInitialized, sdk |-> <<>>]
    ELSE [result |-> GatewayResult(prov,
                        "An error occurred while searching for hotels: ",
                        "An unexpected error occurred during the hotel search."),
          sdk |-> << [endpoint |-> "reference_data.locations.hotels.by_city",
                      params |-> [cityCode |-> city_code]] >>]

find_hotels_by_area(client, latitude, longitude, radius, prov) ==
    IF ~client
    THEN [result |-> NotInitialized, sdk |-> <<>>]
    ELSE [result |-> GatewayResult(prov,
                        "An error occurred while searching for hotels by area: ",
                        "An unexpected error occurred during the hotel area search."),
          sdk |-> << [endpoint |-> "reference_data.locations.hotels.by_geocode",
                      params |-> [longitude |-> longitude, latitude |-> latitude,
                                  radius |-> radius, radiusUnit |-> JStr("KM")]] >>]

(* ------------------------------- tools.py ------------------------------ *)
\* geolocator.geocode(address): a (lat, lon) tuple, None, or the lookup's
\* exception, which nothing here catches
get_geocoordinates(address, geo) ==
    CASE geo.out = "hit"  -> [raised |-> FALSE, found |-> TRUE,
                              latitude |-> JNum(geo.lat), longitude |-> JNum(geo.lon)]
      [] geo.out = "miss" -> [raised |-> FALSE, found |-> FALSE,
                              latitude |-> JNull, longitude |-> JNull]
      [] OTHER            -> [raised |-> TRUE, found |-> FALSE,
                              latitude |-> JNull, longitude |-> JNull]

\* what one tool execution did: its return value (or exception), the
\* gateway methods it called, the SDK requests sent, the geocoder lookups
Effect(result, gateway, sdk, geocoder) ==
    [result |-> result, gateway |-> gateway, sdk |-> sdk, geocoder |-> geocoder]

Today == "2025-10-19"

get_current_date == Effect(Str(<<Today>>), <<>>, <<>>, <<>>)

search_flights(kw, client, prov) ==
    LET r == find_one_way_flights(client, kw["origin"], kw["destination"],
                 kw["departure_date"], kw["num_adults"], kw["num_children"],
                 kw["non_stop"], kw["maximum_results"], prov)
    IN  Effect(r.result,
               << [method |-> "find_one_way_flights",
                   args |-> <<kw["origin"], kw["destination"], kw["departure_date"],
                              kw["num_adults"], kw["num_children"], kw["non_stop"],
                              kw["maximum_results"]>>] >>,
               r.sdk, <<>>)

search_hotels_by_city(kw, client, prov) ==
    LET r == find_hotels_in_city(client, kw["city_code"], prov)
    IN  Effect(r.result,
               << [method |-> "find_hotels_in_city", args |-> <<kw["city_code"]>>] >>,
               r.sdk, <<>>)

NoLocationError ==
    Str(<<"Error: Cannot search for hotels without a valid location. Please provide a place_name or valid latitude/longitude.">>)

GeocodeFailedError(place_name) ==
    Str(<<"Error: Could not find the coordinates for the location '", place_name,
          "'. Please try a different or more specific landmark.">>)

\* the search once latitude and longitude are settled
AreaSearch(latitude, longitude, radius, client, prov, geocoder) ==
    IF latitude.t = "null" \/ longitude.t = "null"
    THEN Effect(NoLocationError, <<>>, <<>>, geocoder)
    ELSE LET r == find_hotels_by_area(client, latitude, longitude, radius, prov)
         IN  Effect(r.result,
                    << [method |-> "find_hotels_by_area",
                        args |-> <<latitude, longitude, radius>>] >>,
                    r.sdk, geocoder)

\* geocoding whenever a place name is given
NeedsGeocodingMutant(kw) == Truthy(kw["place_name"])

\* the guard of the geocoding step
NeedsGeocoding(kw) ==
    /\ Truthy(kw["place_name"])
    /\ kw["longitude"].t = "null" /\ kw["latitude"].t = "null"

\* one lookup of the geocoder: the address asked and what came back
Lookup(address, geo) == <<[address |-> address, out |-> geo.out]>>

\* a miss that falls through to the search
GeocodeMissMutant(kw, client, prov, geo) ==
    AreaSearch(kw["latitude"], kw["longitude"], kw["radius"], client, prov,
               Lookup(kw["place_name"].s, geo))

\* the else branch of "if coordinates"
GeocodeMiss(kw, client, prov, geo) ==
    Effect(GeocodeFailedError(kw["place_name"].s), <<>>, <<>>,
           Lookup(kw["place_name"].s, geo))

search_hotels_by_area(kw, client, prov, geo) ==
    IF NeedsGeocoding(kw)
    THEN LET coordinates == get_geocoordinates(kw["place_name"].s, geo)
         IN  CASE coordinates.raised ->
                    Effect(Raised("geocoder"), <<>>, <<>>, Lookup(kw["place_name"].s, geo))
               [] coordinates.found ->
                    AreaSearch(coordinates.latitude, coordinates.longitude, kw["radius"],
                               client, prov, Lookup(kw["place_name"].s, geo))
               [] OTHER -> GeocodeMiss(kw, client, prov, geo)
    ELSE AreaSearch(kw["latitude"], kw["longitude"], kw["radius"], client, prov, <<>>)

(* --------------------- a tool call and its execution ------------------- *)
NoArgs == [f \in Fields |-> Absent]

ToolCall(id, name, args) == [id |-> id, name |-> name, args |-> args]

FieldOrder == <<"origin", "destination", "departure_date", "num_adults", "num_children",
                "non_stop", "maximum_results", "city_code", "place_name", "latitude",
                "longitude", "radius">>

\* the pydantic ValidationError for the offending fields
ValidationError(tool, args) ==
    [kind |-> "validation_error",
     parts |-> SelectSeq(FieldOrder, LAMBDA f : f \in OffendingFields(tool, args))]

NoEffect(result) == Effect(result, <<>>, <<>>, <<>>)

\* the decorated function itself, called with the validated arguments
Implementation(tool, kw, client, prov, geo) ==
    CASE tool = "get_current_date"        -> get_current_date
      [] tool = "search_flights"          -> search_flights(kw, client, prov)
      [] tool = "search_hotels_by_city"   -> search_hotels_by_city(kw, client, prov)
      [] tool = "search_hotels_by_area"   -> search_hotels_by_area(kw, client, prov, geo)

\* tool.invoke(call) as the ToolNode runs it: the name is looked up, the
\* arguments are validated against args_schema, and only then the function runs
Invoke(call, client, prov, geo) ==
    IF call.name \notin ToolNames
    THEN [call |-> call, validated |-> FALSE, implCalled |-> FALSE,
          effect |-> NoEffect(Str(<<"Error: ", call.name, " is not a valid tool">>))]
    ELSE IF ~Validate(call.name, call.args)
    THEN [call |-> call, validated |-> FALSE, implCalled |-> FALSE,
          effect |-> NoEffect(ValidationError(call.name, call.args))]
    ELSE [call |-> call, validated |-> TRUE, implCalled |-> TRUE,
          effect |-> Implementation(call.name, FillDefaults(call.name, call.args),
                                    client, prov, geo)]

(* ------------------ inputs: the tool calls a model may emit ------------ *)
Args(pairs) == [f \in Fields |-> IF f \in DOMAIN pairs THEN pairs[f] ELSE Absent]

FlightCalls ==
    {ToolCall(1, "search_flights",
        Args([origin |-> o, destination |-> d, departure_date |-> dd, num_adults |-> na,
              num_children |-> nc, non_stop |-> ns, maximum_results |-> mr])) :
        o  \in {Absent, JStr("BLR"), JNum(5)},
        d  \in {Absent, JStr("COK")},
        dd \in {Absent, JStr("2025-11-01")},
        na \in {Absent, JNum(2), JStr("2"), JStr("two")},
        nc \in {Absent, JNum(1)},
        ns \in {Absent, JBool(FALSE)},
        mr \in {Absent, JNum(5)}}

CityCalls ==
    {ToolCall(1, "search_hotels_by_city", Args([city_code |-> c])) :
        c \in {Absent, JStr("PAR"), JNum(5)}}

AreaCalls ==
    {ToolCall(1, "search_hotels_by_area",
        Args([place_name |-> p, latitude |-> la, longitude |-> lo, radius |-> r])) :
        p  \in {Absent, JNull, JStr(""), JStr("Eiffel Tower, Paris")},
        la \in {Absent, JNum(0), JNum(48), JStr("north")},
        lo \in {Absent, JNum(0), JNum(2)},
        r  \in {Absent, JNum(5), JStr("far")}}

OtherCalls == {ToolCall(1, "get_current_date", NoArgs),
               ToolCall(1, "book_trip", NoArgs)}

AllToolCalls == FlightCalls \cup CityCalls \cup AreaCalls \cup OtherCalls


\* the calls the worker chooses from in a conversation
RunToolCalls ==
    {ToolCall(1, "get_current_date", NoArgs),
     ToolCall(1, "book_trip", NoArgs),
     ToolCall(1, "search_flights",
        Args([origin |-> JStr("BLR"), destination |-> JStr("COK"),
              departure_date |-> JStr("2025-11-01")])),
     ToolCall(1, "search_flights",
        Args([origin |-> JStr("BLR"), departure_date |-> JStr("2025-11-01")])),
     ToolCall(1, "search_hotels_by_area",
        Args([place_name |-> JStr("Eiffel Tower, Paris")]))}

(* ------------------------------ messages ------------------------------- *)
\* message content: a plain str, or a list of content blocks
StrContent(text)    == [kind |-> "str",  text |-> text, blocks |-> <<>>]
ListContent(blocks) == [kind |-> "list", text |-> "",   blocks |-> blocks]

\* a block is a dict with a "type", or a bare str
TextBlock(text)  == [isdict |-> TRUE,  type |-> "text",     text |-> text]
ThinkingBlock    == [isdict |-> TRUE,  type |-> "thinking", text |-> ""]
PlainBlock(text) == [isdict |-> FALSE, type |-> "",         text |-> text]

NoPayload == [kind |-> "none", parts |-> <<>>]

HumanMessage(text) ==
    [type |-> "human", content |-> StrContent(text), tool_calls |-> <<>>,
     tool_call_id |-> 0, payload |-> NoPayload]

AIMessage(content, tool_calls) ==
    [type |-> "ai", content |-> content, tool_calls |-> tool_calls,
     tool_call_id |-> 0, payload |-> NoPayload]

ToolMessage(payload, tool_call_id) ==
    [type |-> "tool", content |-> StrContent(""), tool_calls |-> <<>>,
     tool_call_id |-> tool_call_id, payload |-> payload]

Greeting == AIMessage(StrContent("Hi! How can I help you with your travel plans today?"), <<>>)

UserInputs == {"Flights from BLR to COK on 2025-11-01"}

Answer == "Here is what I found."

\* the shapes of response.content a model invocation may return
ModelContents ==
    {StrContent(Answer),
     ListContent(<<TextBlock(Answer)>>),
     ListContent(<<ThinkingBlock, TextBlock(Answer)>>),
     ListContent(<<PlainBlock(Answer)>>),
     ListContent(<<>>)}

\* the tool_calls lists of a worker response: ids number the calls
ToolCallLists ==
    UNION {{[i \in 1..n |-> ToolCall(i, f[i].name, f[i].args)] :
                f \in [1..n -> RunToolCalls]} : n \in 0..MaxToolCalls}

WorkerResponses ==
    {AIMessage(c, <<>>) : c \in ModelContents}
        \cup {AIMessage(StrContent(""), calls) : calls \in ToolCallLists \ {<<>>}}

\* the place names tool calls ask the geocoder about
Places == {"Eiffel Tower, Paris"}

(* ------------------------------- state --------------------------------- *)
VARIABLES
    session,         \* st.session_state.messages
    pc,              \* where the turn stands: idle, DECIDING (agent), ACTING (action),
                     \* SUMMARIZING (summarize), DONE (END reached), FAILED (invoke raised)
    messages,        \* AgentState["messages"] of the run
    client,          \* AmadeusAPI.client is set (TRUE) or None (FALSE)
    resolvable,      \* the place names the geocoding service finds a location for
    turn,            \* user inputs handled so far
    sessionBefore,   \* the session when the turn's input arrived
    runInput,        \* the history agent.invoke was given
    workerCalls,     \* invocations of the worker in this run
    actingEntries,   \* executions of the action node in this run
    supervisorCalls, \* invocations of the supervisor in this run
    invocations      \* the tool invocations of this run, in call order

vars == <<session, pc, messages, client, resolvable, turn, sessionBefore, runInput,
          workerCalls, actingEntries, supervisorCalls, invocations>>

\* AmadeusAPI.__init__ leaves client None when the SDK client cannot be built
Init ==
    /\ session = <<Greeting>>
    /\ pc = "idle"
    /\ messages = <<>>
    /\ client \in BOOLEAN
    /\ resolvable \in SUBSET Places
    /\ turn = 0
    /\ sessionBefore = <<Greeting>>
    /\ runInput = <<>>
    /\ workerCalls = 0
    /\ actingEntries = 0
    /\ supervisorCalls = 0
    /\ invocations = <<>>

(* ----------------------- llm_graph_update.py --------------------------- *)
\* a reducer that replaces the history
ReducerMutant(x, y) == y

\* the reducer of AgentState.messages
Reducer(x, y) == x \o y

should_continue(state) ==
    LET last_message == Last(state)
    IN  IF last_message.type = "ai" /\ last_message.tool_calls # <<>>
        THEN "continue"
        ELSE "end"

\* add_conditional_edges("agent", should_continue, {...})
AgentEdge(decision) ==
    CASE decision = "continue" -> "ACTING"
      [] decision = "end"      -> "DONE"

\* an edge from the action node back to the agent node
ActionEdgeMutant == "DECIDING"

\* add_edge("action", "summarize")
ActionEdge == "SUMMARIZING"

\* add_edge("summarize", END)
SummarizeEdge == "DONE"


\* what a lookup of an address can come to: the service finds the places it
\* knows and no others, and any lookup can fail in transport
GeoAnswers(address) ==
    {geo \in GeoOutcomes :
        geo.out = "raise" \/ (geo.out = "hit" <=> address \in resolvable)}

\* the distinct executions one tool call can have, over the provider's and
\* the geocoder's outcomes
Executions(call, cl) ==
    {Invoke(call, cl, prov, geo) :
        prov \in ProviderOutcomes, geo \in GeoAnswers(call.args["place_name"].s)}

\* the executions of a list of calls, one per call, in call order
RECURSIVE ToolRuns(_, _)
ToolRuns(calls, cl) ==
    IF calls = <<>>
    THEN {<<>>}
    ELSE {<<e>> \o rest : e \in Executions(Head(calls), cl),
                          rest \in ToolRuns(Tail(calls), cl)}

EscapedException(run) ==
    \E i \in 1..Len(run) : run[i].effect.result.kind = "exception"

\* the content of the ToolMessage for one execution
ToolPayload(inv) ==
    IF inv.effect.result.kind = "exception"
    THEN Str(<<"Error: ", inv.effect.result.parts[1], " Please fix your mistakes.">>)
    ELSE inv.effect.result

\* results paired with the calls in reverse
ToolMessagesMutant(run) ==
    [i \in 1..Len(run) |-> ToolMessage(ToolPayload(run[i]), run[Len(run) + 1 - i].call.id)]

\* the ToolNode's output: one ToolMessage per call, in call order
ToolMessages(run) ==
    [i \in 1..Len(run) |-> ToolMessage(ToolPayload(run[i]), run[i].call.id)]

\* an agent node whose reducer extends the caller's list in place
call_modelInPlaceMutant ==
    /\ pc = "DECIDING"
    /\ workerCalls' = workerCalls + 1
    /\ \E response \in WorkerResponses :
            /\ messages' = Reducer(messages, <<response>>)
            /\ session' = Reducer(session, <<response>>)
            /\ pc' = AgentEdge(should_continue(messages'))
    /\ UNCHANGED <<client, resolvable, turn, sessionBefore, runInput, actingEntries,
                   supervisorCalls, invocations>>

\* the "agent" node and the conditional edge out of it
call_model ==
    /\ pc = "DECIDING"
    /\ workerCalls' = workerCalls + 1
    /\ \/ \E response \in WorkerResponses :
            /\ messages' = Reducer(messages, <<response>>)
            /\ pc' = AgentEdge(should_continue(messages'))
       \/ \* agent.invoke raises
          /\ pc' = "FAILED"
          /\ messages' = messages
    /\ UNCHANGED <<session, client, resolvable, turn, sessionBefore, runInput, actingEntries,
                   supervisorCalls, invocations>>

\* the "action" node: ToolNode(available_tools). An exception escaping a tool
\* is turned into an error ToolMessage or re-raised, depending on the
\* installed ToolNode's default error handling.
tool_node ==
    /\ pc = "ACTING"
    /\ actingEntries' = actingEntries + 1
    /\ \E run \in ToolRuns(Last(messages).tool_calls, client) :
            /\ invocations' = run
            /\ \/ /\ messages' = Reducer(messages, ToolMessages(run))
                  /\ pc' = ActionEdge
               \/ /\ EscapedException(run)
                  /\ pc' = "FAILED"
                  /\ messages' = messages
    /\ UNCHANGED <<session, client, resolvable, turn, sessionBefore, runInput, workerCalls,
                   supervisorCalls>>

\* AIMessage(content=response.content)
SummaryMessage(response) == AIMessage(response.content, <<>>)

\* the "summarize" node
call_summarizer ==
    /\ pc = "SUMMARIZING"
    /\ supervisorCalls' = supervisorCalls + 1
    /\ \/ \E c \in ModelContents :
            /\ messages' = Reducer(messages, <<SummaryMessage(AIMessage(c, <<>>))>>)
            /\ pc' = SummarizeEdge
       \/ \* summarizer.invoke raises
          /\ pc' = "FAILED"
          /\ messages' = messages
    /\ UNCHANGED <<session, client, resolvable, turn, sessionBefore, runInput, workerCalls,
                   actingEntries, invocations>>

(* --------------------- new_conversational_app.py ----------------------- *)
\* a new chat input: the HumanMessage is appended and the agent is invoked
\* with the whole history. After a run that raised, the script runs again on
\* the next input with the session state as the failed run left it.
UserInput ==
    /\ pc \in {"idle", "FAILED"}
    /\ turn < MaxTurns
    /\ \E user_input \in UserInputs :
            session' = Append(session, HumanMessage(user_input))
    /\ sessionBefore' = session
    /\ runInput' = session'
    /\ messages' = session'
    /\ pc' = "DECIDING"
    /\ turn' = turn + 1
    /\ workerCalls' = 0
    /\ actingEntries' = 0
    /\ supervisorCalls' = 0
    /\ invocations' = <<>>
    /\ UNCHANGED <<client, resolvable>>

\* what the try block appends for the last message of the result; the bare
\* except swallows the IndexError of an empty list and the AttributeError of
\* a block that is no dict
Appended(response) ==
    LET content == response.content
    IN  CASE content.kind = "str"          -> <<response>>
          [] content.blocks = <<>>         -> <<>>
          [] ~content.blocks[1].isdict     -> <<>>
          [] content.blocks[1].type = "text" ->
                <<[response EXCEPT !.content = StrContent(content.blocks[1].text)]>>
          [] OTHER                         -> <<>>

\* the rest of the script once agent.invoke has returned; the run's result
\* is a local of the script and is gone when the script ends
HandleResponse ==
    /\ pc = "DONE"
    /\ session' = session \o Appended(Last(messages))
    /\ pc' = "idle"
    /\ messages' = <<>>
    /\ runInput' = <<>>
    /\ workerCalls' = 0
    /\ actingEntries' = 0
    /\ supervisorCalls' = 0
    /\ invocations' = <<>>
    /\ UNCHANGED <<client, resolvable, turn, sessionBefore>>

Next ==
    \/ UserInput
    \/ call_model
    \/ tool_node
    \/ call_summarizer
    \/ HandleResponse

Spec == Init /\ [][Next]_vars

\* the steps of a turn once its input is in: the graph's nodes and the rest of
\* the script
RunStep == call_model \/ tool_node \/ call_summarizer \/ HandleResponse

\* every model and tool call of a run returns or raises, and the graph, run
\* synchronously by agent.invoke, then takes its next step; nothing makes the
\* user send another input
FairSpec == Spec /\ WF_vars(RunStep)

(* ------------- the action node on any single tool call ---------------- *)
\* the run stands at the action node, the worker having answered the first
\* user input with one tool call, of any tool and with any arguments
ToolInit ==
    /\ \E user_input \in UserInputs, call \in AllToolCalls :
            /\ session = <<Greeting, HumanMessage(user_input)>>
            /\ messages = Reducer(session, <<AIMessage(StrContent(""), <<call>>)>>)
    /\ pc = "ACTING"
    /\ client \in BOOLEAN
    /\ resolvable \in SUBSET Places
    /\ turn = 1
    /\ sessionBefore = <<Greeting>>
    /\ runInput = session
    /\ workerCalls = 1
    /\ actingEntries = 0
    /\ supervisorCalls = 0
    /\ invocations = <<>>

ToolSpec == ToolInit /\ [][tool_node]_vars


(* ------------------------------ properties ----------------------------- *)
\* the worker's response of the current run, once there is one
HasWorkerMessage == Len(messages) > Len(runInput)
WorkerMessage    == messages[Len(runInput) + 1]

ModelInvocationFailed == pc = "FAILED" /\ ~EscapedException(invocations)

\* C1: when the worker's AIMessage carries no tool calls, the run goes through
\* the summarize node: the supervisor is invoked once and its output, not the
\* worker's message, is the last message of the finished run.
C1_NoToolCallsGoToSummarizing ==
    (pc = "DONE" /\ HasWorkerMessage /\ WorkerMessage.tool_calls = <<>>)
        => /\ supervisorCalls = 1
           /\ Len(messages) = Len(runInput) + 2

\* C2: a worker AIMessage with tool calls sends the run to the action node,
\* and when summarizing starts the history holds, right after that message,
\* exactly one ToolMessage per tool call, in call order, each with the id of
\* its call and the outcome of that call's execution.
C2_OneToolMessagePerCall ==
    (HasWorkerMessage /\ WorkerMessage.tool_calls # <<>>)
        => LET n     == Len(runInput)
               calls == WorkerMessage.tool_calls
           IN  /\ pc = "ACTING" => actingEntries = 0 /\ Len(messages) = n + 1
               /\ pc # "ACTING" => actingEntries = 1
               /\ pc = "SUMMARIZING" => Len(messages) = n + 1 + Len(calls)
               /\ pc \in {"SUMMARIZING", "DONE"} =>
                    /\ Len(invocations) = Len(calls)
                    /\ Len(messages) >= n + 1 + Len(calls)
                    /\ \A i \in 1..Len(calls) :
                          /\ messages[n + 1 + i].type = "tool"
                          /\ messages[n + 1 + i].tool_call_id = calls[i].id
                          /\ invocations[i].call = calls[i]
                          /\ messages[n + 1 + i].payload = ToolPayload(invocations[i])
                    /\ \A j \in (n + 2 + Len(calls))..Len(messages) :
                          messages[j].type # "tool"

\* two calls were executed, the first answered by the gateway with an error
\* string after the provider refused the request, the second with the
\* provider's list, and summarizing is about to start
C2_Witness ==
    /\ pc = "SUMMARIZING"
    /\ Len(invocations) = 2
    /\ invocations[1].effect.result.kind = "str"
    /\ Len(invocations[1].effect.sdk) = 1
    /\ invocations[2].effect.result.kind = "list"
    /\ messages[Len(messages)].tool_call_id = 2

\* C3: the message sequence a finished run returns ends with an AIMessage
\* without tool calls and starts with the input history, unchanged.
C3_FinalAnswerAndPrefix ==
    pc = "DONE" =>
        /\ Len(messages) > Len(runInput)
        /\ IsPrefix(runInput, messages)
        /\ Last(messages).type = "ai"
        /\ Last(messages).tool_calls = <<>>

\* a second turn's run finished on the tool path, the first turn's answer
\* being part of its input history
C3_Witness ==
    /\ pc = "DONE"
    /\ turn = 2
    /\ actingEntries = 1
    /\ supervisorCalls = 1
    /\ Len(runInput) = 4

C5_NoExceptionLeavesGateway ==
    \A i \in 1..Len(invocations) : invocations[i].effect.result.kind # "exception"


\* the radius a call asks for: the supplied one, or 2 km
RadiusAsked(args) == IF args["radius"].t = "absent" THEN JNum(2) ELSE args["radius"]

\* C6: a search_hotels_by_area call that supplies place_name together with
\* latitude and longitude does not consult the geocoder, and calls
\* find_hotels_by_area (and through it the provider's by_geocode endpoint)
\* with the supplied latitude, longitude and radius.
C6_CoordinatesTakePrecedence ==
    \A i \in 1..Len(invocations) :
        LET inv == invocations[i]
            a   == inv.call.args
        IN  (/\ inv.call.name = "search_hotels_by_area"
             /\ inv.implCalled
             /\ a["place_name"].t = "str"
             /\ a["latitude"].t = "num"
             /\ a["longitude"].t = "num")
            => /\ inv.effect.geocoder = <<>>
               /\ inv.effect.gateway =
                    << [method |-> "find_hotels_by_area",
                        args |-> <<a["latitude"], a["longitude"], RadiusAsked(a)>>] >>
               /\ client =>
                    inv.effect.sdk =
                        << [endpoint |-> "reference_data.locations.hotels.by_geocode",
                            params |-> [longitude |-> a["longitude"],
                                        latitude |-> a["latitude"],
                                        radius |-> RadiusAsked(a),
                                        radiusUnit |-> JStr("KM")]] >>

\* a call naming the Eiffel Tower and giving latitude 0 was searched at the
\* given coordinates
C6_Witness ==
    /\ pc = "SUMMARIZING"
    /\ client
    /\ Len(invocations) = 1
    /\ invocations[1].call.args["place_name"] = JStr("Eiffel Tower, Paris")
    /\ invocations[1].call.args["latitude"] = JNum(0)
    /\ invocations[1].call.args["longitude"] = JNum(2)
    /\ invocations[1].effect.result.kind = "list"
    /\ Len(invocations[1].effect.sdk) = 1

NoCoordinate(v) == v.t \in {"absent", "null"}

\* C7: a search_hotels_by_area call with a non-empty place_name and no
\* coordinates, for which the geocoder finds nothing, returns a string that
\* contains the place_name, and neither find_hotels_by_area nor the provider
\* is called.
C7_GeocodeMissNamesPlace ==
    \A i \in 1..Len(invocations) :
        LET inv == invocations[i]
            a   == inv.call.args
        IN  (/\ inv.call.name = "search_hotels_by_area"
             /\ inv.implCalled
             /\ a["place_name"].t = "str" /\ a["place_name"].s # ""
             /\ NoCoordinate(a["latitude"]) /\ NoCoordinate(a["longitude"])
             /\ Len(inv.effect.geocoder) = 1
             /\ inv.effect.geocoder[1].out = "miss")
            => /\ inv.effect.result.kind = "str"
               /\ \E k \in 1..Len(inv.effect.result.parts) :
                        inv.effect.result.parts[k] = a["place_name"].s
               /\ inv.effect.gateway = <<>>
               /\ inv.effect.sdk = <<>>

\* the geocoder found nothing for "Eiffel Tower, Paris"
C7_Witness ==
    /\ pc = "SUMMARIZING"
    /\ Len(invocations) = 1
    /\ invocations[1].call.name = "search_hotels_by_area"
    /\ invocations[1].effect.geocoder =
            <<[address |-> "Eiffel Tower, Paris", out |-> "miss"]>>
    /\ invocations[1].effect.result.kind = "str"

\* the value a field has once validated, when the call leaves it out
Omitted(args, field, default) == args[field].t = "absent" => default

\* C8: a call to a registered tool whose arguments violate its schema never
\* reaches the implementation, the gateway, the provider or the geocoder;
\* whatever reaches them has passed validation, and an optional field left
\* out arrives as num_adults 1, num_children 0, non_stop true,
\* maximum_results 10, radius 2.
C8_ValidationPrecedesInvocation ==
    \A i \in 1..Len(invocations) :
        LET inv    == invocations[i]
            a      == inv.call.args
            tool   == inv.call.name
            e      == inv.effect
            called == e.gateway # <<>> \/ e.sdk # <<>> \/ e.geocoder # <<>>
        IN  /\ (tool \in ToolNames /\ OffendingFields(tool, a) # {})
                => /\ ~inv.implCalled
                   /\ ~called
                   /\ e.result.kind = "validation_error"
            /\ (called \/ inv.implCalled)
                => /\ inv.validated
                   /\ tool \in ToolNames
                   /\ OffendingFields(tool, a) = {}
            /\ (tool = "search_flights" /\ e.gateway # <<>>)
                => /\ Omitted(a, "num_adults", e.gateway[1].args[4] = JNum(1))
                   /\ Omitted(a, "num_children", e.gateway[1].args[5] = JNum(0))
                   /\ Omitted(a, "non_stop", e.gateway[1].args[6] = JBool(TRUE))
                   /\ Omitted(a, "maximum_results", e.gateway[1].args[7] = JNum(10))
            /\ (tool = "search_flights" /\ e.sdk # <<>>)
                => /\ Omitted(a, "num_adults", e.sdk[1].params.adults = JNum(1))
                   /\ Omitted(a, "num_children", e.sdk[1].params.children = JNum(0))
                   /\ Omitted(a, "non_stop", e.sdk[1].params.nonStop = JStr("true"))
                   /\ Omitted(a, "maximum_results", e.sdk[1].params.max = JNum(10))
            /\ (tool = "search_hotels_by_area" /\ e.gateway # <<>>)
                => Omitted(a, "radius", e.gateway[1].args[3] = JNum(2))

\* search_flights without destination was rejected, naming the field
C8_Witness ==
    /\ pc = "SUMMARIZING"
    /\ Len(invocations) = 1
    /\ invocations[1].call.name = "search_flights"
    /\ invocations[1].call.args["origin"] = JStr("BLR")
    /\ invocations[1].call.args["destination"] = Absent
    /\ ~invocations[1].implCalled
    /\ invocations[1].effect.result.parts = <<"destination">>

\* C9: a turn in which the worker's or the supervisor's invocation raised
\* leaves the session as it was before the turn began.
C9_FailedTurnLeavesSessionUnchanged ==
    ModelInvocationFailed => session = sessionBefore

\* C10: when the script has handled a finished run, the session has grown by
\* one message, an AIMessage, right after the turn's HumanMessage.
C10_FinalMessageAppended ==
    [][(pc = "DONE" /\ pc' = "idle")
        => /\ Last(session).type = "human"
           /\ Len(session') = Len(session) + 1
           /\ IsPrefix(session, session')
           /\ Last(session').type = "ai"]_vars


RunInProgress == pc \in {"DECIDING", "ACTING", "SUMMARIZING"}

\* C11: every step leaves the session's earlier contents in place as a prefix
\* of the new session; no step of a run in progress changes the session; the
\* session changes only when the script takes a new input or has the result
\* of a finished run, and then by appending one message.
C11_SessionAppendOnly ==
    [][/\ IsPrefix(session, session')
       /\ RunInProgress => session' = session
       /\ session' # session
            => /\ \/ pc \in {"idle", "FAILED"} /\ pc' = "DECIDING"
                  \/ pc = "DONE" /\ pc' = "idle"
               /\ Len(session') = Len(session) + 1]_vars

\* the second turn's run is about to summarize; the session holds the first
\* turn's messages and the second input, as when the run began
C11_Witness ==
    /\ pc = "SUMMARIZING"
    /\ turn = 2
    /\ Len(session) = 4
    /\ session = runInput
    /\ IsPrefix(sessionBefore, session)
    /\ Len(messages) > Len(session)


\* a validated execution of search_hotels_by_area
AreaExecution(inv) == inv.call.name = "search_hotels_by_area" /\ inv.implCalled

SearchPerformed(inv) ==
    \E k \in 1..Len(inv.effect.gateway) :
        inv.effect.gateway[k].method = "find_hotels_by_area"

\* C12: a search_hotels_by_area call whose place_name the geocoder can resolve
\* performs the hotel search, whichever of latitude and longitude it
\* supplies; and a call that gets past the geocoding step returns the
\* no-location error exactly when it has neither a resolvable place_name nor
\* both coordinates.
C12_NoLocationOnlyWithoutLocation ==
    \A i \in 1..Len(invocations) :
        LET inv  == invocations[i]
            a    == inv.call.args
            pair == ~NoCoordinate(a["latitude"]) /\ ~NoCoordinate(a["longitude"])
            canResolve == a["place_name"].t = "str" /\ a["place_name"].s \in resolvable
        IN  (AreaExecution(inv) /\ inv.effect.result.kind # "exception")
            => /\ canResolve
                    => SearchPerformed(inv) /\ inv.effect.result # NoLocationError
               /\ inv.effect.result # GeocodeFailedError(a["place_name"].s)
                    => (inv.effect.result = NoLocationError <=> ~(canResolve \/ pair))

\* C13: find_hotels_by_area is only called with a latitude and a longitude
\* that are both numbers, and an execution of search_hotels_by_area that does
\* not call it ends in a str.
C13_SearchOnlyWithBothCoordinates ==
    \A i \in 1..Len(invocations) :
        LET inv == invocations[i]
        IN  AreaExecution(inv)
            => /\ \A k \in 1..Len(inv.effect.gateway) :
                    inv.effect.gateway[k].method = "find_hotels_by_area"
                        => /\ inv.effect.gateway[k].args[1].t = "num"
                           /\ inv.effect.gateway[k].args[2].t = "num"
               /\ ~SearchPerformed(inv) => inv.effect.result.kind = "str"

\* the first half of C13 alone: no search without both coordinates
SearchHasBothCoordinates ==
    \A i \in 1..Len(invocations) :
        \A k \in 1..Len(invocations[i].effect.gateway) :
            invocations[i].effect.gateway[k].method = "find_hotels_by_area"
                => /\ invocations[i].effect.gateway[k].args[1].t = "num"
                   /\ invocations[i].effect.gateway[k].args[2].t = "num"

=============================================================================
